---- MODULE Spec2Model ----
(***************************************************************************)
(* Model of worker/server.js: the GET /api/saida-posicional handler, the   *)
(* artifact file it reads and the external output worker that owns it.     *)
(*                                                                         *)
(* Three value domains are kept apart, as in the program:                  *)
(*   - JSON texts on disk / on the wire, as syntax trees  (t = "null",     *)
(*     "bool", "num", "str", "arr", "obj"); a number is its lexeme;        *)
(*   - JavaScript values in the handler (t = "null", "boolean", "number",  *)
(*     "string", "Array", "Object", "undefined"); a number is a double;    *)
(*   - the artifact's state in the file system (k = "absent",              *)
(*     "unreadable", "invalid", "json").                                   *)
(* JSON.parse maps the first domain to the second, res.json maps back.     *)
(* Not modelled: the order of an object's keys, duplicate keys in a JSON   *)
(* text, and the static routes.                                            *)
(***************************************************************************)
EXTENDS Integers, Sequences, FiniteSets, TLC

VARIABLES file, pc, existed, raw, err, resp, logs, reads, clean, prev

vars == <<file, pc, existed, raw, err, resp, logs, reads, clean, prev>>

\* Longest array generated as a posicional value of the artifact.
MaxLen == 2

-----------------------------------------------------------------------------
\* JSON texts (syntax trees)

JNull == [t |-> "null"]
JBool(b) == [t |-> "bool", b |-> b]
JNum(lexeme) == [t |-> "num", n |-> lexeme]
JStr(s) == [t |-> "str", s |-> s]
JArr(seq) == [t |-> "arr", a |-> seq]
JObj(f) == [t |-> "obj", o |-> f]

\* The empty mapping (an object without keys).
NoKeys == [k \in {} |-> JNull]

\* JavaScript values

Undefined == [t |-> "undefined"]
Null == [t |-> "null"]
Bool(b) == [t |-> "boolean", b |-> b]
Number(d) == [t |-> "number", d |-> d]
String(s) == [t |-> "string", s |-> s]
\* An Array has its indexed elements and, like any object, named properties.
Array(seq, props) == [t |-> "Array", a |-> seq, p |-> props]
Object(f) == [t |-> "Object", o |-> f]

-----------------------------------------------------------------------------
\* JSON.parse on a syntactically valid text

\* The double a number lexeme denotes: a lexeme beyond the range of a double
\* ("1e999") becomes Infinity.
ToDouble(lexeme) == IF lexeme = "1e999" THEN "Infinity" ELSE lexeme

RECURSIVE JSONparse(_)
JSONparse(j) ==
    CASE j.t = "null" -> Null
      [] j.t = "bool" -> Bool(j.b)
      [] j.t = "num" -> Number(ToDouble(j.n))
      [] j.t = "str" -> String(j.s)
      [] j.t = "arr" -> Array([i \in DOMAIN j.a |-> JSONparse(j.a[i])], NoKeys)
      [] j.t = "obj" -> Object([k \in DOMAIN j.o |-> JSONparse(j.o[k])])

\* JSON.stringify, as res.json applies it to the body

\* A double as JSON: a non-finite number is written as null.
NumberToJSON(d) == IF d = "Infinity" THEN JNull ELSE JNum(d)

RECURSIVE JSONstringify(_)
JSONstringify(v) ==
    CASE v.t = "null" -> JNull
      [] v.t = "boolean" -> JBool(v.b)
      [] v.t = "number" -> NumberToJSON(v.d)
      [] v.t = "string" -> JStr(v.s)
      \* an Array is serialised by its indexed elements only
      [] v.t = "Array" -> JArr([i \in DOMAIN v.a |-> JSONstringify(v.a[i])])
      [] v.t = "Object" -> JObj([k \in DOMAIN v.o |-> JSONstringify(v.o[k])])

-----------------------------------------------------------------------------
\* The JavaScript operators the handler uses

\* !v
Not(v) ==
    \/ v.t \in {"null", "undefined"}
    \/ v.t = "boolean" /\ ~v.b
    \/ v.t = "number" /\ v.d = "0"
    \/ v.t = "string" /\ v.s = ""

\* typeof v
TypeOf(v) ==
    CASE v.t \in {"null", "Array", "Object"} -> "object"
      [] OTHER -> v.t

\* v.key, for an Array or an Object v
Get(v, key) ==
    LET own == IF v.t = "Array" THEN v.p ELSE v.o
    IN  IF key \in DOMAIN own THEN own[key] ELSE Undefined

\* Put that builds a fresh object holding the one key.
PutAlone(v, key, val) == Object([k \in {key} |-> val])

\* v.key = val, for an Array or an Object v
Put(v, key, val) ==
    LET own == IF v.t = "Array" THEN v.p ELSE v.o
        new == [k \in DOMAIN own \cup {key} |-> IF k = key THEN val ELSE own[k]]
    IN  IF v.t = "Array" THEN Array(v.a, new) ELSE Object(new)

\* Array.isArray(v)
IsArray(v) == v.t = "Array"

-----------------------------------------------------------------------------
\* The handler's literals

\* DefaultDocument without its ultima_atualizacao member.
DefaultDocumentNoStamp ==
    Object([k \in {"posicional"} |-> Array(<<>>, NoKeys)])

\* { posicional: [], ultima_atualizacao: null }
DefaultDocument ==
    Object([k \in {"posicional", "ultima_atualizacao"} |->
              IF k = "posicional" THEN Array(<<>>, NoKeys) ELSE Null])

\* { erro: "Falha ao ler dados de saida" } (the source writes "saída")
ErrorDocument == Object([k \in {"erro"} |-> String("Falha ao ler dados de saida")])

\* if (!data || typeof data !== "object") data = { ...default... }
Coerce(data) ==
    IF Not(data) \/ TypeOf(data) # "object" THEN DefaultDocument ELSE data

\* FixPosicional without its test: posicional is emptied in every case.
FixPosicionalAlways(data) == Put(data, "posicional", Array(<<>>, NoKeys))

\* if (!Array.isArray(data.posicional)) data.posicional = []
FixPosicional(data) ==
    IF ~IsArray(Get(data, "posicional"))
    THEN Put(data, "posicional", Array(<<>>, NoKeys))
    ELSE data

\* lines 19-28 on a parsed value
Normalize(data) == FixPosicional(Coerce(data))

\* res.json(v) and res.status(500).json(v)
Json200(v) == [t |-> "response", status |-> 200, body |-> JSONstringify(v)]
Json500(v) == [t |-> "response", status |-> 500, body |-> JSONstringify(v)]

None == [t |-> "none"]

-----------------------------------------------------------------------------
\* The artifact in the file system, owned by the external output worker

Absent == [k |-> "absent"]
\* the path exists but readFileSync throws (a directory, no permission)
Unreadable == [k |-> "unreadable"]
\* a regular file whose text is not JSON ("not valid json{{{")
Invalid == [k |-> "invalid"]
\* a regular file holding the JSON text j
Json(j) == [k |-> "json", j |-> j]

Record == JObj([k \in {"id"} |-> JNum("1")])

Scalars ==
    {JNull, JBool(TRUE), JBool(FALSE), JNum("0"), JNum("1"), JNum("1e999"),
     JStr(""), JStr("a")}

Elems == {JNum("1e999"), Record}

Arrays == {JArr(s) : s \in UNION {[1..n -> Elems] : n \in 0..MaxLen}}

PosVals == Arrays \cup {JStr("not-an-array"), JNum("1"), Record, JNull}
UltVals == {JStr("2024-01-01T00:00:00Z"), JNull, JNum("1e999")}
OtherVals == {JStr("v")}

\* The objects with keys among posicional, ultima_atualizacao and moeda.
Objects ==
    {JObj(f) : f \in UNION {[K -> PosVals \cup UltVals \cup OtherVals] :
                              K \in SUBSET {"posicional", "ultima_atualizacao", "moeda"}}}

WellTyped(j) ==
    /\ "posicional" \in DOMAIN j.o => j.o["posicional"] \in PosVals
    /\ "ultima_atualizacao" \in DOMAIN j.o => j.o["ultima_atualizacao"] \in UltVals
    /\ "moeda" \in DOMAIN j.o => j.o["moeda"] \in OtherVals

JsonTexts == Scalars \cup Arrays \cup {j \in Objects : WellTyped(j)}

Files == {Absent, Unreadable, Invalid} \cup {Json(j) : j \in JsonTexts}

\* The artifacts of the sequential specification (several requests in a row).
SeqFiles ==
    {Absent, Unreadable, Invalid, Json(JNull), Json(JArr(<<Record>>)),
     Json(JObj([k \in {"posicional"} |-> JStr("not-an-array")])),
     Json(JObj([k \in {"posicional", "ultima_atualizacao"} |->
                  IF k = "posicional" THEN JArr(<<Record>>)
                  ELSE JStr("2024-01-01T00:00:00Z")]))}

-----------------------------------------------------------------------------
\* The handler

\* Thrown with a failure that sticks: once a request has failed, the next fails.
ThrownSticky(f) ==
    IF prev # None /\ prev.resp.status = 500 THEN "EIO"
    ELSE CASE f.k = "absent" -> "ENOENT"
           [] f.k = "unreadable" -> "EISDIR"
           [] f.k = "invalid" -> "SyntaxError"
           [] OTHER -> "none"

\* What readFileSync + JSON.parse throw on the artifact f ("none": nothing).
Thrown(f) ==
    CASE f.k = "absent" -> "ENOENT"
      [] f.k = "unreadable" -> "EISDIR"
      [] f.k = "invalid" -> "SyntaxError"
      [] OTHER -> "none"

\* Catch that returns the error's own text to the caller.
CatchLeak(e) == Json500(Object([k \in {"erro"} |-> String(e)]))

\* catch (err) { console.error(...); return res.status(500).json({erro}) }
Catch(e) == Json500(ErrorDocument)

Init ==
    /\ file \in Files
    /\ pc = "idle"
    /\ existed = FALSE
    /\ raw = None
    /\ err = "none"
    /\ resp = None
    /\ logs = 0
    /\ reads = 0
    /\ clean = TRUE
    /\ prev = None

\* A request arrives and existsSync finds no file: the default document.
ExistsSyncFalse ==
    /\ pc = "idle"
    /\ file.k = "absent"
    /\ existed' = FALSE
    /\ resp' = Json200(DefaultDocument)
    /\ raw' = None
    /\ err' = "none"
    /\ logs' = 0
    /\ reads' = 0
    /\ clean' = TRUE
    /\ UNCHANGED <<file, pc>>

\* A request arrives and existsSync finds the path.
ExistsSyncTrue ==
    /\ pc = "idle"
    /\ file.k # "absent"
    /\ existed' = TRUE
    /\ resp' = None
    /\ raw' = None
    /\ err' = "none"
    /\ logs' = 0
    /\ reads' = 0
    /\ clean' = (file.k = "json")
    /\ pc' = "read"
    /\ UNCHANGED file

\* readFileSync, JSON.parse, the normalisation and the response, or the catch.
ReadAndRespond ==
    /\ pc = "read"
    /\ raw' = file
    /\ reads' = reads + 1
    /\ err' = Thrown(file)
    /\ IF Thrown(file) = "none"
       THEN /\ resp' = Json200(Normalize(JSONparse(file.j)))
            /\ logs' = logs
       ELSE /\ resp' = Catch(Thrown(file))
            /\ logs' = logs + 1
    /\ pc' = "idle"
    /\ UNCHANGED <<file, existed, clean>>

\* The output worker creates, deletes or replaces the artifact. clean records
\* whether the artifact was absent or valid JSON throughout the request.
WorkerWrite(universe) ==
    \E f \in universe \ {file} :
        /\ file' = f
        /\ clean' = IF pc = "read" THEN clean /\ f.k \in {"absent", "json"} ELSE clean
        /\ UNCHANGED <<pc, existed, raw, err, resp, logs, reads, prev>>

Next ==
    \/ ExistsSyncFalse /\ UNCHANGED prev
    \/ ExistsSyncTrue /\ UNCHANGED prev
    \/ ReadAndRespond /\ UNCHANGED prev
    \/ WorkerWrite(Files)

Spec == Init /\ [][Next]_vars

\* Several requests in a row: prev keeps what the previous request saw and
\* answered.
Completed == [existed |-> existed, raw |-> raw, resp |-> resp]

Remember == prev' = IF resp # None THEN Completed ELSE prev

SeqInit == Init /\ file \in SeqFiles

SeqNext ==
    \/ ExistsSyncFalse /\ Remember
    \/ ExistsSyncTrue /\ Remember
    \/ ReadAndRespond /\ UNCHANGED prev
    \/ WorkerWrite(SeqFiles)

SeqSpec == SeqInit /\ [][SeqNext]_vars

-----------------------------------------------------------------------------
\* Properties

\* A request has been answered and no other is in progress.
Done == pc = "idle" /\ resp # None

\* The answered request read a JSON text / a JSON object.
ReadJson == Done /\ raw # None /\ raw.k = "json"
ReadObject == ReadJson /\ raw.j.t = "obj"

HasKey(j, key) == j.t = "obj" /\ key \in DOMAIN j.o

\* {"posicional":[],"ultima_atualizacao":null} and the error body, as JSON
DefaultBody ==
    JObj([k \in {"posicional", "ultima_atualizacao"} |->
            IF k = "posicional" THEN JArr(<<>>) ELSE JNull])
ErrorBody == JObj([k \in {"erro"} |-> JStr("Falha ao ler dados de saida")])

\* Every number in the JSON text j is one a double holds exactly.
RECURSIVE Exact(_)
Exact(j) ==
    CASE j.t = "num" -> j.n \in {"0", "1"}
      [] j.t = "arr" -> \A i \in DOMAIN j.a : Exact(j.a[i])
      [] j.t = "obj" -> \A k \in DOMAIN j.o : Exact(j.o[k])
      [] OTHER -> TRUE

\* C1: the body of every response is a single JSON object, whatever the
\* artifact was (absent, unreadable, invalid, or valid JSON of any type).
C1_BodyIsObject == Done => resp.body.t = "obj"

\* C2: every 200 response has the key ultima_atualizacao in its body, and its
\* value is null when the source is an object without that key. Stated of the
\* 200 responses whose body is an object; C1 is about the others.
C2_StampPresent ==
    Done /\ resp.status = 200 /\ resp.body.t = "obj" =>
        /\ HasKey(resp.body, "ultima_atualizacao")
        /\ (ReadObject /\ ~HasKey(raw.j, "ultima_atualizacao")
              => resp.body.o["ultima_atualizacao"] = JNull)

\* C3: every 200 response has a posicional key whose value is an array: the
\* source's own array (as res.json encodes it) when the source is an object
\* with an array posicional, the empty array in every other case.
C3_PosicionalIsArray ==
    Done /\ resp.status = 200 =>
        /\ HasKey(resp.body, "posicional")
        /\ resp.body.o["posicional"].t = "arr"
        /\ resp.body.o["posicional"] =
             IF ReadObject /\ HasKey(raw.j, "posicional")
                           /\ raw.j.o["posicional"].t = "arr"
             THEN JSONstringify(JSONparse(raw.j.o["posicional"]))
             ELSE JArr(<<>>)

\* C4: a request that finds no file is answered 200 with exactly the default
\* document; nothing is read or parsed and nothing is logged.
C4_AbsentIsDefault ==
    Done /\ ~existed =>
        /\ resp.status = 200
        /\ resp.body = DefaultBody
        /\ reads = 0
        /\ raw = None
        /\ err = "none"
        /\ logs = 0

C4_Witness == Done /\ ~existed /\ file = Absent /\ resp.status = 200

\* C5: a request whose read raises an I/O error, or whose text is not valid
\* JSON, ends in 500 with the fixed generic erro body and one log line; it is
\* never answered 200 and nothing of a document is in the body.
C5_ReadFailureIs500 ==
    Done /\ raw # None /\ raw.k \in {"unreadable", "invalid"} =>
        /\ resp.status = 500
        /\ resp.body = ErrorBody
        /\ err # "none"
        /\ logs = 1

C5_Witness ==
    /\ Done /\ raw # None /\ raw.k = "invalid"
    /\ err = "SyntaxError" /\ resp.status = 500 /\ logs = 1

\* C6: a JSON text whose value is not an object (an array, a string, a number,
\* a boolean, null) is answered 200 with the default document, and nothing of
\* the parsed value is in the response.
C6_NonObjectIsDefault ==
    ReadJson /\ raw.j.t # "obj" => resp.status = 200 /\ resp.body = DefaultBody

\* The case of C7: an object with posicional an array and ultima_atualizacao a
\* string.
C7_Case ==
    /\ ReadObject
    /\ HasKey(raw.j, "posicional") /\ raw.j.o["posicional"].t = "arr"
    /\ HasKey(raw.j, "ultima_atualizacao") /\ raw.j.o["ultima_atualizacao"].t = "str"

\* C7 as claimed: in that case the response is 200 and reproduces posicional
\* and ultima_atualizacao, and the object as a whole, unchanged.
C7_RoundTrip ==
    C7_Case =>
        /\ resp.status = 200
        /\ HasKey(resp.body, "posicional")
        /\ resp.body.o["posicional"] = raw.j.o["posicional"]
        /\ HasKey(resp.body, "ultima_atualizacao")
        /\ resp.body.o["ultima_atualizacao"] = raw.j.o["ultima_atualizacao"]
        /\ resp.body = raw.j

\* C7 amended: in that case the response is 200 with the source's keys, the
\* source's ultima_atualizacao and a posicional of the source's length; every
\* element of posicional whose numbers a double holds exactly is reproduced at
\* its place, and so is the whole object when all its numbers are such.
C7_RoundTripExact ==
    C7_Case =>
        /\ resp.status = 200
        /\ resp.body.t = "obj"
        /\ DOMAIN resp.body.o = DOMAIN raw.j.o
        /\ resp.body.o["ultima_atualizacao"] = raw.j.o["ultima_atualizacao"]
        /\ resp.body.o["posicional"].t = "arr"
        /\ DOMAIN resp.body.o["posicional"].a = DOMAIN raw.j.o["posicional"].a
        /\ \A i \in DOMAIN raw.j.o["posicional"].a :
              Exact(raw.j.o["posicional"].a[i]) =>
                  resp.body.o["posicional"].a[i] = raw.j.o["posicional"].a[i]
        /\ (Exact(raw.j) => resp.body = raw.j)

C7_Witness ==
    /\ C7_Case
    /\ raw.j.o["posicional"] = JArr(<<Record>>)
    /\ resp.status = 200
    /\ resp.body = raw.j

\* The case of C8: an object whose posicional is present and is a string, a
\* number, an object or null.
C8_Case ==
    /\ ReadObject
    /\ HasKey(raw.j, "posicional")
    /\ raw.j.o["posicional"].t \in {"str", "num", "obj", "null"}

C9_Stateless ==
    Done /\ prev # None =>
        /\ (prev.existed = existed /\ prev.raw = raw => prev.resp = resp)
        /\ (raw # None /\ raw.k = "json" =>
               /\ resp.status = 200
               /\ resp.body = JSONstringify(Normalize(JSONparse(raw.j))))

C9_Witness ==
    /\ Done /\ prev # None
    /\ prev.resp.status = 500
    /\ raw # None /\ raw.k = "json" /\ raw.j.t = "obj"
    /\ resp.status = 200

\* C10: a request during which the artifact was, at every moment, absent or
\* valid JSON ends in 200, however the worker's writes interleave with the
\* existence check and the read.
C10_NeverErrorWhenClean == Done /\ clean => resp.status = 200

====
